---- MODULE Spec2Model ----
(***************************************************************************)
(* The transcript / notes library of the lecture-transcription app.        *)
(*                                                                         *)
(* The repository holds four drafts of the App component and two drafts of *)
(* the gateway service; every App draft imports                            *)
(* './services/geminiService', so each App draft may run against either    *)
(* service draft.  The draft in use is fixed at start-up (variables        *)
(* variant and service never change).                                      *)
(*                                                                         *)
(*   variant  "app_a"    src/app.tsx 21-184                                *)
(*            "app_b"    src/app.tsx 206-537                               *)
(*            "part_000" src/unnamed/part_000                              *)
(*            "part_001" src/unnamed/part_001                              *)
(*   service  "gemini"   src/services/geminiService.ts                     *)
(*            "inline"   src/app.tsx 539-686                               *)
(*                                                                         *)
(* React state is one variable per useState cell.  An async handler is     *)
(* split at its await: the step that issues the call records the closure   *)
(* values the continuation will read, the step that completes it (resolve  *)
(* or reject) runs the continuation as one atomic state update.            *)
(*                                                                         *)
(* Spec is the four drafts' handlers.  The batch operations of the library *)
(* store (merge, deleteMany), which the design document describes and no   *)
(* draft under src/ holds, are explored together with the handlers in      *)
(* StoreSpec, starting from libraries the handlers have built.             *)
(* The course manager of the two later drafts (addCourse, removeCourse)    *)
(* touches the course list, the selected course and its input only; it is  *)
(* explored with the course select in CourseSpec.                          *)
(***************************************************************************)
EXTENDS Integers, Sequences, FiniteSets, TLC

VARIABLES
  variant,            \* which App draft runs
  service,            \* which gateway service draft runs
  now,                \* the clock (Date.now()) at the latest step that read it
  library,            \* useState<TranscriptionResult[]>([])
  activeResult,       \* useState<TranscriptionResult | null>(null)
  viewMode,           \* 'transcript' | 'latest_notes' | 'previous_notes'
  status,             \* AppStatus
  audioFiles,         \* number of pending audio files
  referenceFiles,     \* number of pending reference files
  selectedCourse,     \* the selected course label
  isGeneratingNotes,  \* useState(false)
  transcribeCalls,    \* transcription handlers suspended at an await
  notesCalls,         \* notes handlers suspended at their await
  steps,              \* number of handler steps taken so far
  regens,             \* per library entry: notes completions applied to it
  overlap,            \* some notes request was issued while another was pending
  batch,              \* number of batch operations (merge, deleteMany) so far
  signal,             \* what the latest batch operation reported to its caller
  selection,          \* the ids marked for the next batch operation
  progress,           \* useState(0): the percentage the progress bar shows
  timers,             \* number of intervals set and not cleared
  courses,            \* useState<string[]>: the course list
  newCourseName       \* the text of the new-course input

vars == <<variant, service, now, library, activeResult, viewMode, status,
          audioFiles, referenceFiles, selectedCourse, isGeneratingNotes,
          transcribeCalls, notesCalls, steps, regens, overlap, batch,
          signal, selection, progress, timers, courses, newCourseName>>

----------------------------------------------------------------------------
(* Bounds of the model *)

\* handler steps (clicks, file loads, gateway completions) in one run
MaxSteps == 10

\* length of the id sequence handed to merge
MaxIds == 2

\* batch operations (merge, deleteMany) in one run
MaxBatch == 2

\* records in the library when the batch operations come into play
MaxRecords == 2

\* the longest run of interval firings between two other steps: enough to
\* take progress from its initial value to the cap of the callback
MaxTicks == 45

----------------------------------------------------------------------------
(* JavaScript values *)

Undefined == [t |-> "undefined"]
NaN == [t |-> "NaN"]
Num(n) == [t |-> "number", n |-> n]
Str(s) == [t |-> "string", s |-> s]

IsNum(v) == v.t = "number"

\* v + 1 for a version counter: undefined + 1 and NaN + 1 are NaN
PlusOne(v) == IF IsNum(v) THEN Num(v.n + 1) ELSE NaN

Null == [null |-> TRUE]

Variants == {"app_a", "app_b", "part_000", "part_001"}
Services == {"gemini", "inline"}

\* the first two entries of DEFAULT_COURSES
Courses == {"IndianBuddhism", "KnowledgeGraph"}

\* the same two entries as the list the course state starts from
DEFAULT_COURSES == <<"IndianBuddhism", "KnowledgeGraph">>

\* what the user may type into the new-course input: nothing, blanks, a
\* new name with and without blanks around it, and a name of the list
TypedNames == {"", " ", "Vinaya", " Vinaya ", "IndianBuddhism"}

\* {title, content} objects the transcription backend may answer with
TranscriptResults ==
  { [title |-> "T1", content |-> "X1"], [title |-> "T2", content |-> "X2"] }

\* response.text values the notes backend may answer with
NotesTexts == {"", "N1"}

----------------------------------------------------------------------------
(* The gateway service *)

\* The record transcribeAudio resolves with, given the parsed {title, content}
\* answer of the backend, the course label passed in and the clock:
\* geminiService.ts 92-99 for the gemini draft, app.tsx 661 for the inline
\* draft (which sets id and timestamp only).
transcribeAudio(result, courseName, clock, svc) ==
  IF svc = "gemini"
  THEN [ id |-> "trans-" \o ToString(clock),
         title |-> result.title,
         content |-> result.content,
         timestamp |-> clock,
         courseName |-> Str(courseName),
         notesLatest |-> Undefined,
         notesPrevious |-> Undefined,
         latestVersion |-> Num(1),
         previousVersion |-> Num(0) ]
  ELSE [ id |-> "",
         title |-> result.title,
         content |-> result.content,
         timestamp |-> 0,
         courseName |-> Undefined,
         notesLatest |-> Undefined,
         notesPrevious |-> Undefined,
         latestVersion |-> Undefined,
         previousVersion |-> Undefined ]

\* The string generateStudyNotes resolves with: response.text || "" in
\* the gemini draft, response.text || <fixed message> in the inline draft.
generateStudyNotes(text, svc) ==
  IF text # "" THEN text
  ELSE IF svc = "gemini" THEN "" ELSE "NoNotesContent"

----------------------------------------------------------------------------
(* The notes handler *)

\* The object `updated` that handleGenerateNotes builds from the
\* activeResult its closure captured and the generated notes.
Updated(snap, notes, v) ==
  IF v = "part_001"
  THEN [snap EXCEPT !.notesPrevious = snap.notesLatest,
                    !.notesLatest = Str(notes),
                    !.latestVersion = PlusOne(snap.latestVersion)]
  ELSE [snap EXCEPT !.notesPrevious = snap.notesLatest,
                    !.previousVersion = snap.latestVersion,
                    !.notesLatest = Str(notes),
                    !.latestVersion = PlusOne(snap.latestVersion)]

\* a completion that writes the active record only
ReplaceByIdNowhere(lib, updated) == lib

\* prev.map(i => i.id === updated.id ? updated : i)
ReplaceById(lib, updated) ==
  [i \in 1..Len(lib) |-> IF lib[i].id = updated.id THEN updated ELSE lib[i]]

RemoveAt(s, k) == [i \in 1..(Len(s) - 1) |-> IF i < k THEN s[i] ELSE s[i + 1]]

----------------------------------------------------------------------------
Init ==
  /\ variant \in Variants
  /\ service \in Services
  /\ now = 1
  /\ library = <<>>
  /\ activeResult = Null
  /\ viewMode = "transcript"
  /\ status = "IDLE"
  /\ audioFiles = 0
  /\ referenceFiles = 0
  /\ selectedCourse = "IndianBuddhism"
  /\ isGeneratingNotes = FALSE
  /\ transcribeCalls = <<>>
  /\ notesCalls = <<>>
  /\ steps = 0
  /\ regens = <<>>
  /\ overlap = FALSE
  /\ batch = 0
  /\ signal = "none"
  /\ selection = {}
  /\ progress = 0
  /\ timers = 0
  /\ courses = DEFAULT_COURSES
  /\ newCourseName = ""

\* every handler step counts against the budget of the run
Step ==
  /\ steps < MaxSteps
  /\ steps' = steps + 1

----------------------------------------------------------------------------
(* File lists and course selection *)

Min(a, b) == IF a <= b THEN a ELSE b

\* reader.onload of processFiles, audio branch; the first draft keeps the
\* last two files and the new one
AddAudio ==
  /\ Step
  /\ audioFiles' = IF variant = "app_a" THEN Min(audioFiles, 2) + 1
                    ELSE audioFiles + 1
  /\ UNCHANGED <<batch, signal, variant, service, now, library, activeResult,
                 viewMode, status, referenceFiles, selectedCourse,
                 isGeneratingNotes, transcribeCalls, notesCalls, regens,
                 overlap, selection, progress, timers, courses,
                 newCourseName>>

\* the x button of an audio chip
RemoveAudio ==
  /\ Step
  /\ audioFiles > 0
  /\ audioFiles' = audioFiles - 1
  /\ UNCHANGED <<batch, signal, variant, service, now, library, activeResult,
                 viewMode, status, referenceFiles, selectedCourse,
                 isGeneratingNotes, transcribeCalls, notesCalls, regens,
                 overlap, selection, progress, timers, courses,
                 newCourseName>>

\* reader.onload of processFiles, reference branch
AddReference ==
  /\ Step
  /\ referenceFiles' = referenceFiles + 1
  /\ UNCHANGED <<batch, signal, variant, service, now, library, activeResult,
                 viewMode, status, audioFiles, selectedCourse,
                 isGeneratingNotes, transcribeCalls, notesCalls, regens,
                 overlap, selection, progress, timers, courses,
                 newCourseName>>

\* the x button of a reference chip (the first draft renders none)
RemoveReference ==
  /\ Step
  /\ variant # "app_a"
  /\ referenceFiles > 0
  /\ referenceFiles' = referenceFiles - 1
  /\ UNCHANGED <<batch, signal, variant, service, now, library, activeResult,
                 viewMode, status, audioFiles, selectedCourse,
                 isGeneratingNotes, transcribeCalls, notesCalls, regens,
                 overlap, selection, progress, timers, courses,
                 newCourseName>>

\* onChange of the course <select>
SelectCourse(c) ==
  /\ Step
  /\ c # selectedCourse
  /\ selectedCourse' = c
  /\ UNCHANGED <<batch, signal, variant, service, now, library, activeResult,
                 viewMode, status, audioFiles, referenceFiles,
                 isGeneratingNotes, transcribeCalls, notesCalls, regens,
                 overlap, selection, progress, timers, courses,
                 newCourseName>>

----------------------------------------------------------------------------
(* Course management of part_000 and part_001: addCourse, removeCourse *)

Range(s) == {s[i] : i \in 1..Len(s)}

\* String.prototype.trim on the names the user may type
trim(s) == IF s = " " THEN "" ELSE IF s = " Vinaya " THEN "Vinaya" ELSE s

\* an addCourse that looks up the name as typed and adds it trimmed
addCourseUntrimmedLookup(list, selected, typed) ==
  IF trim(typed) # "" /\ typed \notin Range(list)
  THEN [ courses |-> Append(list, trim(typed)),
         selectedCourse |-> trim(typed),
         newCourseName |-> "" ]
  ELSE [ courses |-> list, selectedCourse |-> selected,
         newCourseName |-> typed ]

\* addCourse as a function of the course state: a name that is not blank
\* and not in the list is appended trimmed, selected, and the input is
\* emptied; otherwise nothing changes
addCourse(list, selected, typed) ==
  IF trim(typed) # "" /\ trim(typed) \notin Range(list)
  THEN [ courses |-> Append(list, trim(typed)),
         selectedCourse |-> trim(typed),
         newCourseName |-> "" ]
  ELSE [ courses |-> list, selectedCourse |-> selected,
         newCourseName |-> typed ]

\* removeCourse(name) as a function of the course state: nothing changes
\* on a list of one course; otherwise the name is filtered out and, if it
\* was the selected one, the first remaining course is selected
removeCourse(list, selected, name) ==
  IF Len(list) <= 1
  THEN [ courses |-> list, selectedCourse |-> selected ]
  ELSE LET updated == SelectSeq(list, LAMBDA c : c # name)
       IN [ courses |-> updated,
            selectedCourse |-> IF selected = name THEN updated[1]
                               ELSE selected ]

HasCourseManager(v) == v \in {"part_000", "part_001"}

\* onChange of the new-course input
TypeCourseName(typed) ==
  /\ Step
  /\ HasCourseManager(variant)
  /\ typed # newCourseName
  /\ newCourseName' = typed
  /\ UNCHANGED <<batch, signal, variant, service, now, library, activeResult,
                 viewMode, status, audioFiles, referenceFiles,
                 selectedCourse, isGeneratingNotes, transcribeCalls,
                 notesCalls, regens, overlap, selection, progress, timers,
                 courses>>

\* the click on the add button (or Enter in the input)
AddCourse ==
  /\ Step
  /\ HasCourseManager(variant)
  /\ LET out == addCourse(courses, selectedCourse, newCourseName)
     IN /\ courses' = out.courses
        /\ selectedCourse' = out.selectedCourse
        /\ newCourseName' = out.newCourseName
  /\ UNCHANGED <<batch, signal, variant, service, now, library, activeResult,
                 viewMode, status, audioFiles, referenceFiles,
                 isGeneratingNotes, transcribeCalls, notesCalls, regens,
                 overlap, selection, progress, timers>>

\* the click on the trash button of a course of the list
RemoveCourse(name) ==
  /\ Step
  /\ HasCourseManager(variant)
  /\ LET out == removeCourse(courses, selectedCourse, name)
     IN /\ courses' = out.courses
        /\ selectedCourse' = out.selectedCourse
  /\ UNCHANGED <<batch, signal, variant, service, now, library, activeResult,
                 viewMode, status, audioFiles, referenceFiles,
                 isGeneratingNotes, transcribeCalls, notesCalls, regens,
                 overlap, selection, progress, timers, newCourseName>>

----------------------------------------------------------------------------
(* Transcription: startTranscription / handleStartTranscription *)

\* setProgress(10) / setProgress(15) / setProgress(5) at the start
InitialProgress(v) ==
  IF v = "app_a" THEN 10 ELSE IF v = "app_b" THEN 15 ELSE 5

\* the first draft sets no interval
HasTimer(v) == v # "app_a"

\* the interval's callback: prev < 90 ? prev + 5 : prev in the second draft,
\* prev < 95 ? prev + 2 : prev in the later ones
Callback(prev, v) ==
  IF v = "app_b" THEN (IF prev < 90 THEN prev + 5 ELSE prev)
  ELSE (IF prev < 95 THEN prev + 2 ELSE prev)

\* the callback applied n times; once a firing leaves the value as it is,
\* so do the later ones
RECURSIVE Callbacks(_, _, _)
Callbacks(prev, n, v) ==
  IF n = 0 THEN prev
  ELSE LET next == Callback(prev, v)
       IN IF next = prev THEN prev ELSE Callbacks(next, n - 1, v)

\* The intervals that are set fire n times in all between two other steps;
\* a firing that leaves progress as it is changes nothing.
Ticks(n) ==
  /\ Step
  /\ timers > 0
  /\ progress' = Callbacks(progress, n, variant)
  /\ progress' # progress
  /\ UNCHANGED <<batch, signal, variant, service, now, library, activeResult,
                 viewMode, status, audioFiles, referenceFiles,
                 selectedCourse, isGeneratingNotes, transcribeCalls,
                 notesCalls, regens, overlap, selection, timers, courses,
                 newCourseName>>

\* The click on the start button.  The handler returns at once on an empty
\* audio list; the button is disabled (or not rendered) while status is
\* PROCESSING.  part_000 awaits the key check before it sets the status;
\* the other drafts set PROCESSING and go straight to the gateway call.
\* The closure keeps the course selected at the click; `at` is the time of
\* the click, which the completion of the round trip is later than.
StartTranscription ==
  /\ Step
  /\ audioFiles > 0
  /\ status # "PROCESSING"
  /\ IF variant = "part_000"
     THEN /\ transcribeCalls' = Append(transcribeCalls,
                                  [phase |-> "key", course |-> selectedCourse,
                                   at |-> now])
          /\ UNCHANGED <<status, progress, timers, courses, newCourseName>>
     ELSE /\ transcribeCalls' = Append(transcribeCalls,
                                  [phase |-> "api", course |-> selectedCourse,
                                   at |-> now])
          /\ status' = "PROCESSING"
          /\ progress' = InitialProgress(variant)
          /\ timers' = IF HasTimer(variant) THEN timers + 1 ELSE timers
  /\ UNCHANGED <<batch, signal, variant, service, now, library, activeResult,
                 viewMode, audioFiles, referenceFiles, selectedCourse,
                 isGeneratingNotes, notesCalls, regens, overlap, selection,
                 courses, newCourseName>>

\* part_000: hasSelectedApiKey() resolved and a key is set
KeyChecked(k) ==
  /\ Step
  /\ transcribeCalls[k].phase = "key"
  /\ transcribeCalls' = [transcribeCalls EXCEPT ![k].phase = "api"]
  /\ status' = "PROCESSING"
  /\ progress' = InitialProgress(variant)
  /\ timers' = timers + 1
  /\ UNCHANGED <<batch, signal, variant, service, now, library, activeResult,
                 viewMode, audioFiles, referenceFiles, selectedCourse,
                 isGeneratingNotes, notesCalls, regens, overlap, selection,
                 courses, newCourseName>>

\* part_000: no key selected; the handler opens the key dialog and returns
KeyMissing(k) ==
  /\ Step
  /\ transcribeCalls[k].phase = "key"
  /\ transcribeCalls' = RemoveAt(transcribeCalls, k)
  /\ UNCHANGED <<batch, signal, variant, service, now, library, activeResult,
                 viewMode, status, audioFiles, referenceFiles,
                 selectedCourse, isGeneratingNotes, notesCalls, regens,
                 overlap, selection, progress, timers, courses,
                 newCourseName>>

\* part_000: hasSelectedApiKey() (or the key dialog) rejected; the catch
\* block sets ERROR before any gateway call was made
KeyFail(k) ==
  /\ Step
  /\ transcribeCalls[k].phase = "key"
  /\ status' = "ERROR"
  /\ transcribeCalls' = RemoveAt(transcribeCalls, k)
  /\ UNCHANGED <<batch, signal, variant, service, now, library, activeResult,
                 viewMode, audioFiles, referenceFiles, selectedCourse,
                 isGeneratingNotes, notesCalls, regens, overlap, selection,
                 progress, timers, courses, newCourseName>>

Max(a, b) == IF a >= b THEN a ELSE b

\* The clock values a completing call may read: later than the click that
\* issued it, not earlier than the latest reading.  The inline draft of the
\* service never reads the clock.
ClockReadings(call) ==
  IF service = "gemini"
  THEN {Max(now, call.at + 1), Max(now, call.at + 1) + 1}
  ELSE {now}

\* a draft that adds the new record behind the older ones
InsertBack(rec, lib) == lib \o <<rec>>

\* setLibrary(prev => [result, ...prev])
InsertFront(rec, lib) == <<rec>> \o lib

\* transcribeAudio resolved with the record it built; the continuation
\* after the await runs.
TranscribeOk(k, result, clock) ==
  /\ Step
  /\ transcribeCalls[k].phase = "api"
  /\ clock \in ClockReadings(transcribeCalls[k])
  /\ now' = clock
  /\ LET rec == transcribeAudio(result, transcribeCalls[k].course, clock, service)
     IN /\ library' = InsertFront(rec, library)
        /\ activeResult' = rec
  /\ viewMode' = IF variant = "part_001" THEN viewMode ELSE "transcript"
  /\ status' = "COMPLETED"
  /\ progress' = IF HasTimer(variant) THEN 100 ELSE progress
  /\ timers' = IF HasTimer(variant) THEN timers - 1 ELSE timers
  /\ audioFiles' = 0
  /\ referenceFiles' = IF variant = "app_a" THEN referenceFiles ELSE 0
  /\ regens' = <<0>> \o regens
  /\ transcribeCalls' = RemoveAt(transcribeCalls, k)
  /\ UNCHANGED <<batch, signal, variant, service, selectedCourse,
                 isGeneratingNotes, notesCalls, overlap, selection, courses,
                 newCourseName>>

\* a catch block that also drops the pending files
TranscribeFailClearing(k) ==
  /\ Step
  /\ transcribeCalls[k].phase = "api"
  /\ status' = "ERROR"
  /\ audioFiles' = 0
  /\ referenceFiles' = 0
  /\ transcribeCalls' = RemoveAt(transcribeCalls, k)
  /\ UNCHANGED <<batch, signal, variant, service, now, library, activeResult,
                 viewMode, selectedCourse, isGeneratingNotes, notesCalls,
                 regens, overlap, selection, progress, timers, courses,
                 newCourseName>>

\* a catch block that swallows the failure
TranscribeFailSilent(k) ==
  /\ Step
  /\ transcribeCalls[k].phase = "api"
  /\ transcribeCalls' = RemoveAt(transcribeCalls, k)
  /\ UNCHANGED <<batch, signal, variant, service, now, library, activeResult,
                 viewMode, status, audioFiles, referenceFiles,
                 selectedCourse, isGeneratingNotes, notesCalls, regens,
                 overlap, selection, progress, timers, courses,
                 newCourseName>>

\* transcribeAudio rejected: the catch block
TranscribeFail(k) ==
  /\ Step
  /\ transcribeCalls[k].phase = "api"
  /\ status' = "ERROR"
  /\ transcribeCalls' = RemoveAt(transcribeCalls, k)
  /\ UNCHANGED <<batch, signal, variant, service, now, library, activeResult,
                 viewMode, audioFiles, referenceFiles, selectedCourse,
                 isGeneratingNotes, notesCalls, regens, overlap, selection,
                 progress, timers, courses, newCourseName>>

----------------------------------------------------------------------------
(* Record selection and view mode *)

\* the click on a library card
SelectRecord(i) ==
  /\ Step
  /\ activeResult' = library[i]
  /\ viewMode' = "transcript"
  /\ UNCHANGED <<batch, signal, variant, service, now, library, status,
                 audioFiles, referenceFiles, selectedCourse,
                 isGeneratingNotes, transcribeCalls, notesCalls, regens,
                 overlap, selection, progress, timers, courses,
                 newCourseName>>

\* a JavaScript string-or-undefined used as a condition
Truthy(v) == v.t = "string" /\ v.s # ""

\* the transcript button
ShowTranscript ==
  /\ Step
  /\ activeResult # Null
  /\ viewMode # "transcript"
  /\ viewMode' = "transcript"
  /\ UNCHANGED <<batch, signal, variant, service, now, library, activeResult,
                 status, audioFiles, referenceFiles, selectedCourse,
                 isGeneratingNotes, transcribeCalls, notesCalls, regens,
                 overlap, selection, progress, timers, courses,
                 newCourseName>>

\* the previous-version link, rendered when notesPrevious is truthy and the
\* previous version is not already shown (only the app.tsx drafts render it)
ShowPrevious ==
  /\ Step
  /\ variant \in {"app_a", "app_b"}
  /\ activeResult # Null
  /\ Truthy(activeResult.notesPrevious)
  /\ viewMode # "previous_notes"
  /\ viewMode' = "previous_notes"
  /\ UNCHANGED <<batch, signal, variant, service, now, library, activeResult,
                 status, audioFiles, referenceFiles, selectedCourse,
                 isGeneratingNotes, transcribeCalls, notesCalls, regens,
                 overlap, selection, progress, timers, courses,
                 newCourseName>>

----------------------------------------------------------------------------
(* Notes: handleGenerateNotes *)

\* a draft that shows a tentative, empty notes slot while the request runs
GenerateNotesTentative ==
  /\ Step
  /\ activeResult # Null
  /\ isGeneratingNotes' = TRUE
  /\ notesCalls' = Append(notesCalls, [snap |-> activeResult])
  /\ overlap' = (overlap \/ notesCalls # <<>>)
  /\ library' = ReplaceById(library, [activeResult EXCEPT !.notesLatest = Str("")])
  /\ UNCHANGED <<batch, signal, variant, service, now, activeResult,
                 viewMode, status, audioFiles, referenceFiles,
                 selectedCourse, transcribeCalls, regens, selection,
                 progress, timers, courses, newCourseName>>

\* The click on the notes button, up to the await.  The button is not
\* disabled while a request is pending.  The closure keeps the activeResult
\* of the render the click happened in.
GenerateNotes ==
  /\ Step
  /\ activeResult # Null
  /\ isGeneratingNotes' = TRUE
  /\ notesCalls' = Append(notesCalls, [snap |-> activeResult])
  /\ overlap' = (overlap \/ notesCalls # <<>>)
  /\ UNCHANGED <<batch, signal, variant, service, now, library, activeResult,
                 viewMode, status, audioFiles, referenceFiles,
                 selectedCourse, transcribeCalls, regens, selection,
                 progress, timers, courses, newCourseName>>

\* generateStudyNotes resolved: the rest of the try block, then finally
NotesOk(k, text) ==
  /\ Step
  /\ LET updated == Updated(notesCalls[k].snap,
                            generateStudyNotes(text, service), variant)
     IN /\ activeResult' = updated
        /\ library' = ReplaceById(library, updated)
        /\ regens' = [i \in 1..Len(library) |->
                        IF library[i].id = updated.id THEN regens[i] + 1
                        ELSE regens[i]]
  /\ viewMode' = "latest_notes"
  /\ isGeneratingNotes' = FALSE
  /\ notesCalls' = RemoveAt(notesCalls, k)
  /\ UNCHANGED <<batch, signal, variant, service, now, status, audioFiles,
                 referenceFiles, selectedCourse, transcribeCalls, overlap,
                 selection, progress, timers, courses, newCourseName>>

\* a draft whose failure path still writes the (empty) update
NotesFailWrites(k) == NotesOk(k, "")

\* generateStudyNotes rejected: (catch, where there is one, then) finally
NotesFail(k) ==
  /\ Step
  /\ isGeneratingNotes' = FALSE
  /\ notesCalls' = RemoveAt(notesCalls, k)
  /\ UNCHANGED <<batch, signal, variant, service, now, library, activeResult,
                 viewMode, status, audioFiles, referenceFiles,
                 selectedCourse, transcribeCalls, regens, overlap, selection,
                 progress, timers, courses, newCourseName>>

----------------------------------------------------------------------------
(* Batch operations of the library store: merge and deleteMany, and the     *)
(* selection set that marks records for them.  No draft under src/ holds    *)
(* their code; they follow the design document's description of the store  *)
(* (sections 3 and 4.1).                                                    *)

\* a batch operation counts against the budgets of the run
BatchStep ==
  /\ Step
  /\ batch < MaxBatch
  /\ batch' = batch + 1

\* an id no record carries: the clock never reads 0
MissingId == "trans-0"

Ids(lib) == {lib[i].id : i \in 1..Len(lib)}

\* the first record of the library with the given id
Find(lib, id) ==
  lib[CHOOSE i \in 1..Len(lib) :
        lib[i].id = id /\ \A j \in 1..(i - 1) : lib[j].id # id]

\* the ids of the sequence that resolve to a record, in the caller's order
Resolvable(lib, orderedIds) ==
  SelectSeq(orderedIds, LAMBDA id : id \in Ids(lib))

Separator == "|"

\* title and content of every source, joined by the separator in the order
\* of the id sequence
RECURSIVE Joined(_, _)
Joined(lib, ids) ==
  IF ids = <<>> THEN ""
  ELSE LET r == Find(lib, Head(ids))
       IN IF Len(ids) = 1 THEN r.title \o r.content
          ELSE r.title \o r.content \o Separator \o Joined(lib, Tail(ids))

\* a merge that counts the ids it is given, not the records they resolve to
mergeOutcomeByLength(lib, orderedIds) ==
  IF Len(orderedIds) < 2 THEN "invalid-operation" ELSE "ok"

\* what merge reports to its caller
mergeOutcome(lib, orderedIds) ==
  IF Len(Resolvable(lib, orderedIds)) < 2 THEN "invalid-operation" ELSE "ok"

\* The record merge builds.  The design document asks for a fresh id and
\* leaves the title open: the id is numbered by the batch operation that
\* builds the record, the title is fixed.
merged(lib, orderedIds, clock, ordinal) ==
  LET ids == Resolvable(lib, orderedIds)
  IN [ id |-> "merge-" \o ToString(ordinal),
       title |-> "Merged",
       content |-> Joined(lib, ids),
       timestamp |-> clock,
       courseName |-> Find(lib, ids[1]).courseName,
       notesLatest |-> Undefined,
       notesPrevious |-> Undefined,
       latestVersion |-> Num(0),
       previousVersion |-> Num(0) ]

\* a merge that moves its sources into the new record
mergeConsuming(lib, active, orderedIds, clock, ordinal) ==
  IF mergeOutcome(lib, orderedIds) = "ok"
  THEN LET rec == merged(lib, orderedIds, clock, ordinal)
           used(r) == \E n \in 1..Len(orderedIds) : r.id = orderedIds[n]
       IN [ library |-> <<rec>> \o SelectSeq(lib, LAMBDA r : ~used(r)),
            activeResult |-> rec,
            signal |-> "ok" ]
  ELSE [ library |-> lib, activeResult |-> active,
         signal |-> mergeOutcome(lib, orderedIds) ]

\* merge(orderedIds) as a function of the store: the library and the active
\* record it leaves, and what it reports.  With fewer than two resolvable
\* ids nothing changes; otherwise the new record goes to the front and
\* becomes the active record.
merge(lib, active, orderedIds, clock, ordinal) ==
  IF mergeOutcome(lib, orderedIds) = "ok"
  THEN LET rec == merged(lib, orderedIds, clock, ordinal)
       IN [ library |-> InsertFront(rec, lib),
            activeResult |-> rec,
            signal |-> "ok" ]
  ELSE [ library |-> lib, activeResult |-> active,
         signal |-> mergeOutcome(lib, orderedIds) ]

\* the call merge(orderedIds)
Merge(orderedIds) ==
  /\ BatchStep
  /\ LET out == merge(library, activeResult, orderedIds, now, batch + 1)
     IN /\ library' = out.library
        /\ activeResult' = out.activeResult
        /\ signal' = out.signal
        /\ regens' = IF Len(out.library) = Len(library) + 1
                     THEN <<0>> \o regens ELSE regens
  /\ selection' = {}
  /\ UNCHANGED <<variant, service, now, viewMode, status, audioFiles,
                 referenceFiles, selectedCourse, isGeneratingNotes,
                 transcribeCalls, notesCalls, overlap, progress, timers,
                 courses, newCourseName>>

\* a deleteMany that leaves the active pointer alone
deleteManyKeepingActive(lib, active, ids) ==
  [ library |-> SelectSeq(lib, LAMBDA r : r.id \notin ids),
    activeResult |-> active,
    signal |-> "ok" ]

\* a deleteMany that removes, for the whole set, only the first record it
\* finds
deleteManyFirstFound(lib, active, ids) ==
  LET found == {i \in 1..Len(lib) : lib[i].id \in ids}
      first == CHOOSE i \in found : \A j \in found : i <= j
  IN [ library |-> IF found = {} THEN lib ELSE RemoveAt(lib, first),
       activeResult |-> IF active # Null /\ active.id \in ids
                        THEN Null ELSE active,
       signal |-> "ok" ]

\* deleteMany(ids) as a function of the store: every record whose id is in
\* the set is removed, the active pointer is unset if the active record's
\* id is in the set, and ids no record carries are ignored silently
deleteMany(lib, active, ids) ==
  [ library |-> SelectSeq(lib, LAMBDA r : r.id \notin ids),
    activeResult |-> IF active # Null /\ active.id \in ids
                     THEN Null ELSE active,
    signal |-> "ok" ]

\* the call deleteMany(ids)
DeleteMany(ids) ==
  /\ BatchStep
  /\ LET out == deleteMany(library, activeResult, ids)
         kept == {i \in 1..Len(library) : library[i].id \notin ids}
     IN /\ library' = out.library
        /\ activeResult' = out.activeResult
        /\ signal' = out.signal
        /\ regens' = SelectSeq([i \in 1..Len(library) |->
                                 IF i \in kept THEN regens[i] ELSE -1],
                               LAMBDA g : g >= 0)
  /\ selection' = {}
  /\ UNCHANGED <<variant, service, now, viewMode, status, audioFiles,
                 referenceFiles, selectedCourse, isGeneratingNotes,
                 transcribeCalls, notesCalls, overlap, progress, timers,
                 courses, newCourseName>>

\* a toggle that only ever marks
selectToggleMarking(sel, id) == sel \cup {id}

\* selectToggle(id) as a function of the selection set: the id is added if
\* absent and removed if present
selectToggle(sel, id) == IF id \in sel THEN sel \ {id} ELSE sel \cup {id}

\* the call selectToggle(id), for the id of a record on display; the
\* selection is cleared when a batch operation completes
SelectToggle(id) ==
  /\ Step
  /\ selection' = selectToggle(selection, id)
  /\ UNCHANGED <<batch, signal, variant, service, now, library, activeResult,
                 viewMode, status, audioFiles, referenceFiles,
                 selectedCourse, isGeneratingNotes, transcribeCalls,
                 notesCalls, regens, overlap, progress, timers, courses,
                 newCourseName>>

\* the id sequences a caller may hand to merge: the ids of a selection in
\* some order, so without repetition
IdSeqs ==
  {s \in UNION {[1..n -> Ids(library) \cup {MissingId}] : n \in 0..MaxIds} :
     \A i, j \in 1..Len(s) : i # j => s[i] # s[j]}

\* the id sets a caller may hand to deleteMany
IdSets == SUBSET (Ids(library) \cup {MissingId})

----------------------------------------------------------------------------
Next ==
  \/ AddAudio
  \/ RemoveAudio
  \/ AddReference
  \/ RemoveReference
  \/ \E c \in Courses : SelectCourse(c)
  \/ StartTranscription
  \/ \E k \in 1..Len(transcribeCalls) : KeyChecked(k)
  \/ \E k \in 1..Len(transcribeCalls) : KeyMissing(k)
  \/ \E k \in 1..Len(transcribeCalls) : KeyFail(k)
  \/ \E k \in 1..Len(transcribeCalls), result \in TranscriptResults,
        clock \in now..(now + 2) : TranscribeOk(k, result, clock)
  \/ \E k \in 1..Len(transcribeCalls) : TranscribeFail(k)
  \/ \E n \in {1, MaxTicks} : Ticks(n)
  \/ \E i \in 1..Len(library) : SelectRecord(i)
  \/ ShowTranscript
  \/ ShowPrevious
  \/ GenerateNotes
  \/ \E k \in 1..Len(notesCalls), text \in NotesTexts : NotesOk(k, text)
  \/ \E k \in 1..Len(notesCalls) : NotesFail(k)

Spec == Init /\ [][Next]_vars

\* The states from which the batch operations are explored: the user has
\* transcribed MaxRecords recordings, alternating between the two courses,
\* and the backend answered them alternately with its two answers (with
\* geminiService at consecutive clock readings).  The newest record is
\* first and is the active one, as startTranscription leaves it.  Each
\* transcription took three handler steps: the file load, the click and
\* the completion.
StoreInit ==
  /\ variant \in Variants
  /\ service \in Services
  /\ LET n == MaxRecords
         odd(j) == j % 2 = 1
         result(j) == IF odd(j) THEN [title |-> "T1", content |-> "X1"]
                      ELSE [title |-> "T2", content |-> "X2"]
         course(j) == IF odd(j) THEN "IndianBuddhism" ELSE "KnowledgeGraph"
         \* the j-th transcription of the run sits at index n + 1 - j
         made(j) == transcribeAudio(result(j), course(j), j + 1, service)
     IN /\ library = [i \in 1..n |-> made(n + 1 - i)]
        /\ regens = [i \in 1..n |-> 0]
        /\ now = IF service = "gemini" THEN n + 1 ELSE 1
        /\ selectedCourse = IF n = 0 THEN "IndianBuddhism" ELSE course(n)
        /\ status = IF n = 0 THEN "IDLE" ELSE "COMPLETED"
        /\ steps = 3 * n
  /\ activeResult = IF library = <<>> THEN Null ELSE library[1]
  /\ viewMode = "transcript"
  /\ audioFiles = 0
  /\ referenceFiles = 0
  /\ isGeneratingNotes = FALSE
  /\ transcribeCalls = <<>>
  /\ notesCalls = <<>>
  /\ overlap = FALSE
  /\ batch = 0
  /\ signal = "none"
  /\ selection = {}
  /\ progress = IF MaxRecords = 0 THEN 0
               ELSE IF HasTimer(variant) THEN 100
               ELSE InitialProgress(variant)
  /\ timers = 0
  /\ courses = DEFAULT_COURSES
  /\ newCourseName = ""

\* the batch operations of the store together with the handlers; the two
\* view switches, which touch viewMode only, are left out
StoreNext ==
  \/ AddAudio
  \/ RemoveAudio
  \/ AddReference
  \/ RemoveReference
  \/ \E c \in Courses : SelectCourse(c)
  \/ StartTranscription
  \/ \E k \in 1..Len(transcribeCalls) : KeyChecked(k)
  \/ \E k \in 1..Len(transcribeCalls) : KeyMissing(k)
  \/ \E k \in 1..Len(transcribeCalls) : KeyFail(k)
  \/ \E k \in 1..Len(transcribeCalls), result \in TranscriptResults,
        clock \in now..(now + 2) : TranscribeOk(k, result, clock)
  \/ \E k \in 1..Len(transcribeCalls) : TranscribeFail(k)
  \/ \E n \in {1, MaxTicks} : Ticks(n)
  \/ \E i \in 1..Len(library) : SelectRecord(i)
  \/ GenerateNotes
  \/ \E k \in 1..Len(notesCalls), text \in NotesTexts : NotesOk(k, text)
  \/ \E k \in 1..Len(notesCalls) : NotesFail(k)
  \/ \E orderedIds \in IdSeqs : Merge(orderedIds)
  \/ \E ids \in IdSets : DeleteMany(ids)
  \/ \E id \in Ids(library) : SelectToggle(id)

StoreSpec == StoreInit /\ [][StoreNext]_vars

\* The course list a session starts from: the default list, or a list an
\* earlier session saved to local storage, which the effect on courses
\* writes after every change.  The selected course is the first one.
SavedCourses ==
  {<<"IndianBuddhism", "KnowledgeGraph">>, <<"KnowledgeGraph">>,
   <<"KnowledgeGraph", "Vinaya", "IndianBuddhism">>}

CourseInit ==
  /\ variant \in Variants
  /\ service \in Services
  /\ now = 1
  /\ library = <<>>
  /\ activeResult = Null
  /\ viewMode = "transcript"
  /\ status = "IDLE"
  /\ audioFiles = 0
  /\ referenceFiles = 0
  /\ courses \in SavedCourses
  /\ selectedCourse = courses[1]
  /\ newCourseName = ""
  /\ isGeneratingNotes = FALSE
  /\ transcribeCalls = <<>>
  /\ notesCalls = <<>>
  /\ steps = 0
  /\ regens = <<>>
  /\ overlap = FALSE
  /\ batch = 0
  /\ signal = "none"
  /\ selection = {}
  /\ progress = 0
  /\ timers = 0

\* the handlers of the course state: the course <select> and, in part_000
\* and part_001, the course manager
CourseNext ==
  \/ \E c \in Range(courses) : SelectCourse(c)
  \/ \E typed \in TypedNames : TypeCourseName(typed)
  \/ AddCourse
  \/ \E name \in Range(courses) : RemoveCourse(name)

CourseSpec == CourseInit /\ [][CourseNext]_vars

----------------------------------------------------------------------------
(* Properties *)

\* The library only grows at the front, so the entry at index i before a
\* step is the entry at index i + Shift after it.
Shift == Len(library') - Len(library)

Entries == 1..Len(library)

IsDefined(v) == v.t # "undefined"

\* a >= b on version counters: false unless both are numbers
Geq(a, b) == IsNum(a) /\ IsNum(b) /\ a.n >= b.n

\* the step applies the successful completion of notes request k
NotesApplied(k) == \E text \in NotesTexts : NotesOk(k, text)

\* C1: a successful notes regeneration sets, on the library record it was
\* requested for, notesPrevious to the record's old notesLatest,
\* previousVersion to its old latestVersion, notesLatest to the generated
\* notes and latestVersion to its old latestVersion + 1, in every draft of
\* the handler.
C1_RegenerateEffect ==
  [][\A k \in 1..Len(notesCalls), text \in NotesTexts :
       NotesOk(k, text) =>
         \A i \in Entries :
           library[i].id = notesCalls[k].snap.id =>
             /\ library'[i].notesPrevious = library[i].notesLatest
             /\ library'[i].previousVersion = library[i].latestVersion
             /\ library'[i].notesLatest = Str(generateStudyNotes(text, service))
             /\ library'[i].latestVersion = PlusOne(library[i].latestVersion)]_vars

\* C2: as long as notes requests never overlapped, a record that N
\* regenerations were applied to has latestVersion = N and
\* previousVersion = N-1 (0 when N = 0), and after the first regeneration
\* notesPrevious is unset.
C2_VersionsCountRegenerations ==
  ~overlap =>
    \A i \in Entries :
      /\ library[i].latestVersion = Num(regens[i])
      /\ library[i].previousVersion =
           Num(IF regens[i] = 0 THEN 0 ELSE regens[i] - 1)
      /\ regens[i] = 1 => library[i].notesPrevious = Undefined

\* C3: the record a successful transcription puts into the library starts
\* with latestVersion = 0, previousVersion = 0 and both notes slots unset.
C3_CreateStartsAtZero ==
  [][Len(library') = Len(library) + 1 =>
       /\ library'[1].latestVersion = Num(0)
       /\ library'[1].previousVersion = Num(0)
       /\ library'[1].notesLatest = Undefined
       /\ library'[1].notesPrevious = Undefined]_vars

\* C4: no two records of the library share an id.
C4_UniqueIds ==
  \A i, j \in Entries : i # j => library[i].id # library[j].id

\* a record's version counters are numbers with latest >= previous >= 0
VersionsOrdered(r) ==
  /\ IsNum(r.latestVersion)
  /\ IsNum(r.previousVersion)
  /\ r.latestVersion.n >= r.previousVersion.n
  /\ r.previousVersion.n >= 0

\* C5: every record of the library, and the active record, has numeric
\* version counters with latestVersion >= previousVersion >= 0.
C5_VersionsOrdered ==
  /\ \A i \in Entries : VersionsOrdered(library[i])
  /\ activeResult # Null => VersionsOrdered(activeResult)

\* C6: a record that was regenerated at least once has
\* previousVersion = latestVersion - 1.
C6_PreviousTrailsByOne ==
  \A i \in Entries :
    regens[i] >= 1 =>
      /\ IsNum(library[i].latestVersion)
      /\ IsNum(library[i].previousVersion)
      /\ library[i].previousVersion.n = library[i].latestVersion.n - 1

\* C7: the latestVersion of a library record never decreases, and it changes
\* only in a step that applies a completed notes generation for its id.
C7_LatestVersionMonotone ==
  [][\A i \in Entries :
       LET old == library[i].latestVersion
           new == library'[i + Shift].latestVersion
       IN /\ (IsNum(old) /\ IsNum(new)) => new.n >= old.n
          /\ new # old =>
               \E k \in 1..Len(notesCalls) :
                 /\ NotesApplied(k)
                 /\ notesCalls[k].snap.id = library[i].id]_vars

\* C8: a record has notesLatest defined exactly when latestVersion >= 1.
C8_NotesIffVersioned ==
  \A i \in Entries :
    IsDefined(library[i].notesLatest) <=> Geq(library[i].latestVersion, Num(1))

\* C9: the id, title, content, courseName and timestamp of a library record
\* never change; its notes and version fields change only in a step that
\* applies a completed notes generation.
C9_IdentityFieldsImmutable ==
  [][\A i \in Entries :
       LET old == library[i]
           new == library'[i + Shift]
       IN /\ new.id = old.id
          /\ new.title = old.title
          /\ new.content = old.content
          /\ new.courseName = old.courseName
          /\ new.timestamp = old.timestamp
          /\ new # old => \E k \in 1..Len(notesCalls) : NotesApplied(k)]_vars

\* C10: applying a notes regeneration keeps the length of the library and
\* the order of its ids, changes at most one entry (the record the request
\* was issued for), and leaves the updated record as the active record.
C10_ReplaceInPlace ==
  [][\A k \in 1..Len(notesCalls), text \in NotesTexts :
       NotesOk(k, text) =>
         /\ Len(library') = Len(library)
         /\ \A i \in Entries : library'[i].id = library[i].id
         /\ Cardinality({i \in Entries : library'[i] # library[i]}) <= 1
         /\ \A i \in Entries :
              library[i].id # notesCalls[k].snap.id => library'[i] = library[i]
         /\ activeResult' = Updated(notesCalls[k].snap,
                                    generateStudyNotes(text, service), variant)]_vars

\* the step is the successful completion of a transcription call
TranscriptionCompleted ==
  /\ status' = "COMPLETED"
  /\ \E k \in 1..Len(transcribeCalls) :
       /\ transcribeCalls[k].phase = "api"
       /\ transcribeCalls' = RemoveAt(transcribeCalls, k)

\* C11: a successful transcription puts exactly one new record at the front
\* of the library, keeps the existing records unchanged and in their order,
\* and makes the new record the active record.
C11_CreateAtFront ==
  [][TranscriptionCompleted =>
       /\ Len(library') = Len(library) + 1
       /\ \A i \in Entries : library'[i + 1] = library[i]
       /\ activeResult' = library'[1]]_vars

\* a transcription has completed into a library that already held records
C11_Witness ==
  /\ Len(library) >= 2
  /\ status = "COMPLETED"
  /\ activeResult = library[1]
  /\ library[1].title # library[2].title

\* C12: a step in which a transcription call or a notes call fails leaves
\* the library and the active record as they were: nothing is inserted, no
\* notes or version counter changes.
C12_FailureLeavesState ==
  [][( \/ \E k \in 1..Len(transcribeCalls) : TranscribeFail(k)
       \/ \E k \in 1..Len(notesCalls) : NotesFail(k) )
       => UNCHANGED <<library, activeResult>>]_vars

\* a transcription has failed, and two notes requests have both failed,
\* with a record in the library
C12_Witness ==
  /\ status = "ERROR"
  /\ Len(library) >= 1
  /\ overlap
  /\ notesCalls = <<>>
  /\ \A i \in Entries : regens[i] = 0

\* the step completes a gateway call successfully: the continuation of a
\* resolved transcribeAudio or generateStudyNotes runs
CallCompleted ==
  \/ TranscriptionCompleted
  \/ \E k \in 1..Len(notesCalls) : NotesApplied(k)

\* C13: the library changes only in the step that completes a gateway call;
\* issuing a call, and every step taken while calls are in flight, leaves
\* it as it was (no tentative record, no half-updated notes or counters).
C13_InFlightInvisible ==
  [][library' # library => CallCompleted]_vars

\* a transcription call and a notes call are both in flight and the only
\* record of the library is still as it was created
C13_Witness ==
  /\ \E k \in 1..Len(transcribeCalls) : transcribeCalls[k].phase = "api"
  /\ notesCalls # <<>>
  /\ Len(library) = 1
  /\ regens[1] = 0
  /\ library[1].notesLatest = Undefined

\* C14: when a notes request completes on a record that an overlapping
\* request has bumped since this one read it, no update is lost: the record
\* ends two versions above what the request read and the notes written by
\* the first completion are kept as notesPrevious.
C14_NoLostUpdate ==
  [][\A k \in 1..Len(notesCalls), text \in NotesTexts :
       NotesOk(k, text) =>
         \A i \in Entries :
           ( /\ library[i].id = notesCalls[k].snap.id
             /\ IsNum(notesCalls[k].snap.latestVersion)
             /\ library[i].latestVersion =
                  PlusOne(notesCalls[k].snap.latestVersion) )
           => /\ library'[i].latestVersion =
                   PlusOne(PlusOne(notesCalls[k].snap.latestVersion))
              /\ library'[i].notesPrevious = library[i].notesLatest]_vars

\* C15: every completed notes request writes, on the record it was issued
\* for, a latestVersion exactly 1 above the latestVersion it read when it
\* was issued.
C15_BumpByOneFromRead ==
  [][\A k \in 1..Len(notesCalls), text \in NotesTexts :
       NotesOk(k, text) =>
         \A i \in Entries :
           library[i].id = notesCalls[k].snap.id =>
             /\ IsNum(notesCalls[k].snap.latestVersion)
             /\ library'[i].latestVersion =
                  Num(notesCalls[k].snap.latestVersion.n + 1)]_vars

\* C16: when a notes request completes for an id that is no longer in the
\* library, the completion reports not-found and leaves the library and
\* the active record as they were.
C16_NotFoundLeavesState ==
  [][\A k \in 1..Len(notesCalls) :
       (NotesApplied(k) /\ notesCalls[k].snap.id \notin Ids(library))
         => /\ UNCHANGED <<library, activeResult>>
            /\ signal' = "not-found"]_vars

\* C17: the record a completed transcription creates carries, as a defined
\* courseName, the course that was selected when the transcription was
\* started, whatever course is selected when it completes.
C17_CourseAtIssue ==
  [][\A k \in 1..Len(transcribeCalls), result \in TranscriptResults,
        clock \in now..(now + 2) :
       TranscribeOk(k, result, clock) =>
         library'[1].courseName = Str(transcribeCalls[k].course)]_vars

\* what merge(orderedIds) would leave, called in the current state
Merged(orderedIds) == merge(library, activeResult, orderedIds, now, batch + 1)

\* C18: merge removes and modifies none of the records of the library:
\* what it leaves is the old library, or the old library with one record
\* put in.
C18_MergeKeepsSources ==
  \A orderedIds \in IdSeqs :
    LET out == Merged(orderedIds)
    IN \/ out.library = library
       \/ \E j \in 1..Len(out.library) : RemoveAt(out.library, j) = library

\* a merge has put its record in front of the two records it was built from
C18_Witness ==
  /\ Len(library) >= 3
  /\ library[1].id = "merge-1"
  /\ signal = "ok"

\* title + content of the first record with the given id
Piece(id) == Find(library, id).title \o Find(library, id).content

\* the pieces of the first n ids of r, joined from the left
RECURSIVE Expected(_, _)
Expected(r, n) ==
  IF n = 1 THEN Piece(r[1])
  ELSE Expected(r, n - 1) \o Separator \o Piece(r[n])

C20_MergeInvalid ==
  \A orderedIds \in IdSeqs :
    LET out == Merged(orderedIds)
    IN Len(Resolvable(library, orderedIds)) < 2 =>
         /\ out.signal = "invalid-operation"
         /\ out.library = library
         /\ out.activeResult = activeResult

\* a merge was refused with two records in the library
C20_Witness ==
  /\ signal = "invalid-operation"
  /\ Len(library) = 2
  /\ activeResult # Null

\* what deleteMany(ids) would leave, called in the current state
Deleted(ids) == deleteMany(library, activeResult, ids)

\* the first n records of the library without those whose id is in the set
RECURSIVE Remaining(_, _)
Remaining(ids, n) ==
  IF n = 0 THEN <<>>
  ELSE IF library[n].id \in ids THEN Remaining(ids, n - 1)
       ELSE Append(Remaining(ids, n - 1), library[n])

\* C21: deleteMany(ids) removes from the library exactly the records whose
\* id is in the set, the others remain in their order; the active pointer
\* becomes unset if the active record's id is in the set and is unchanged
\* otherwise.
C21_DeleteManyRemovesExactly ==
  \A ids \in IdSets :
    LET out == Deleted(ids)
    IN /\ out.library = Remaining(ids, Len(library))
       /\ Ids(out.library) = Ids(library) \ ids
       /\ (activeResult # Null /\ activeResult.id \in ids)
            => out.activeResult = Null
       /\ (activeResult = Null \/ activeResult.id \notin ids)
            => out.activeResult = activeResult

\* a deleteMany has removed the active record and left another one
C21_Witness ==
  /\ batch = 1
  /\ signal = "ok"
  /\ Len(library) = 1
  /\ activeResult = Null
  /\ library[1].id # "merge-1"

\* C22: deleteMany is idempotent: called a second time with the same id set
\* it leaves the library and the active pointer of the first call; ids no
\* record carries are ignored without error, so a set of such ids changes
\* nothing and adding one to a set changes nothing of what is left.
C22_DeleteManyIdempotent ==
  \A ids \in IdSets :
    LET once == Deleted(ids)
        twice == deleteMany(once.library, once.activeResult, ids)
    IN /\ twice.library = once.library
       /\ twice.activeResult = once.activeResult
       /\ once.signal = "ok"
       /\ twice.signal = "ok"
       /\ once = Deleted(ids \ {MissingId})
       /\ ids \cap Ids(library) = {}
            => once.library = library /\ once.activeResult = activeResult

\* deleteMany was called twice and the library holds no record any more: the
\* second call found nothing of its set left
C22_Witness ==
  /\ batch = 2
  /\ signal = "ok"
  /\ library = <<>>
  /\ activeResult = Null
  /\ notesCalls = <<>>

\* C23: selectToggle(id) adds the id to the selection set if it is absent
\* and removes it if it is present, so a second toggle of the same id
\* restores the selection set; the library, its records and the active
\* record stay as they are.
C23_SelectToggle ==
  [][\A id \in Ids(library) :
       SelectToggle(id) =>
         /\ id \notin selection => selection' = selection \cup {id}
         /\ id \in selection => selection' = selection \ {id}
         /\ (id \in selection') # (id \in selection)
         /\ selectToggle(selection', id) = selection
         /\ UNCHANGED <<library, activeResult>>]_vars

\* one of two records is marked: the other was never marked, or was marked
\* and unmarked again
C23_Witness ==
  /\ Len(library) = 2
  /\ library[1].id # library[2].id
  /\ selection = {library[2].id}
  /\ batch = 0

\* C24: whenever an active record is set, the library holds a record with
\* its id that is equal to it field for field, whatever the order of record
\* selections, transcription completions and notes completions.
C24_ActiveInLibrary ==
  activeResult # Null =>
    \E i \in Entries :
      /\ library[i].id = activeResult.id
      /\ library[i] = activeResult

\* a notes completion has made a record further back in the library the
\* active one while a newer record sits in front of it
C24_Witness ==
  /\ Len(library) >= 2
  /\ activeResult = library[2]
  /\ activeResult # library[1]
  /\ regens[2] >= 1
  /\ viewMode = "latest_notes"

\* two values of one record agree on the fields no handler rewrites
SameRecord(a, b) ==
  /\ a.id = b.id
  /\ a.title = b.title
  /\ a.content = b.content
  /\ a.timestamp = b.timestamp
  /\ a.courseName = b.courseName

\* C25: when a notes request issued for a record completes successfully,
\* the updated record becomes the active record and the view mode becomes
\* latest_notes, whichever record is active at that moment; the record that
\* was active at that moment, if it is another one, is not modified in the
\* library.
C25_CompletionActivatesItsRecord ==
  [][\A k \in 1..Len(notesCalls), text \in NotesTexts :
       NotesOk(k, text) =>
         LET snap == notesCalls[k].snap
         IN /\ activeResult' # Null
            /\ activeResult'.id = snap.id
            /\ activeResult'.title = snap.title
            /\ activeResult'.content = snap.content
            /\ activeResult'.notesLatest = Str(generateStudyNotes(text, service))
            /\ viewMode' = "latest_notes"
            /\ \A i \in Entries :
                 (activeResult # Null /\ library[i] = activeResult
                    /\ ~SameRecord(activeResult, snap))
                   => library'[i] = library[i]]_vars

\* C26: the isGeneratingNotes flag is true in exactly the states where at
\* least one notes-generation call is in flight.
C26_FlagIffInFlight == isGeneratingNotes <=> notesCalls # <<>>

\* the transcription calls that wait for the gateway
InFlight(calls) == {k \in 1..Len(calls) : calls[k].phase = "api"}

ProgressInRange == progress \in 0..100

\* C28: the progress timer a transcription attempt starts is stopped when
\* the attempt ends, by success or by failure: with no transcription call
\* in flight no timer is running; progress stays within 0..100.
C28_TimerStopsWithAttempt ==
  /\ InFlight(transcribeCalls) = {} => timers = 0
  /\ ProgressInRange

\* C29: a successful transcription empties the pending audio-file list and,
\* in the drafts after the first, the reference-file list; a failed
\* transcription leaves both lists exactly as they were.
C29_FileListsAfterAttempt ==
  [][\A k \in 1..Len(transcribeCalls) :
       /\ (\E result \in TranscriptResults, clock \in now..(now + 2) :
             TranscribeOk(k, result, clock))
            => /\ audioFiles' = 0
               /\ variant # "app_a" => referenceFiles' = 0
       /\ TranscribeFail(k) => UNCHANGED <<audioFiles, referenceFiles>>]_vars

\* a transcription with a reference file failed and the files are still
\* pending
C29_Witness ==
  /\ status = "ERROR"
  /\ audioFiles >= 1
  /\ referenceFiles >= 1
  /\ transcribeCalls = <<>>
  /\ library = <<>>

NoDuplicates(list) == \A i, j \in 1..Len(list) : i # j => list[i] # list[j]

\* C30: under any sequence of addCourse and removeCourse the course list is
\* never empty and holds no name twice, and the selected course is a member
\* of the list; removeCourse on the last remaining course and addCourse
\* with a blank or already-present name change nothing.
C30_CourseList ==
  [][/\ courses' # <<>>
     /\ NoDuplicates(courses) => NoDuplicates(courses')
     /\ selectedCourse' \in Range(courses')
     /\ \A name \in Range(courses) :
          (RemoveCourse(name) /\ Len(courses) = 1)
            => UNCHANGED <<courses, selectedCourse, newCourseName>>
     /\ (AddCourse /\ (trim(newCourseName) = ""
                        \/ trim(newCourseName) \in Range(courses)))
          => UNCHANGED <<courses, selectedCourse, newCourseName>>]_vars

\* a course was added under a name typed with blanks around it, and the
\* list was then reduced to this one course
C30_Witness ==
  /\ courses = <<"Vinaya">>
  /\ selectedCourse = "Vinaya"
  /\ newCourseName = " Vinaya "

============================================================================
